---- MODULE Spec2Model ----
(***************************************************************************)
(* Model of scripts/python/classify_visual.py: the lazily loaded layout    *)
(* model (get_model), the two operations built on it (classify_image,      *)
(* detect_regions) and the command line driver (main).                     *)
(*                                                                         *)
(* Units.  A confidence score is an integer number of ten-thousandths      *)
(* (0.5625 is 5625); a score emitted after round(score, 3) is an integer   *)
(* number of thousandths (0.562 is 562).  Box coordinates of a detected    *)
(* block are in half pixels (x_1 = 3 is 1.5 px), so that int() has         *)
(* something to truncate; an emitted bbox is in whole pixels.              *)
(*                                                                         *)
(* The scores drawn are multiples of 1/16 and the image areas are powers   *)
(* of two: for those the double arithmetic of the program (the division,   *)
(* the product and the comparisons) is exact, and round(score, 3) is the   *)
(* round-half-to-even of the exact value, which Round3 computes.           *)
(***************************************************************************)
EXTENDS Integers, Sequences, FiniteSets, TLC

VARIABLES
    pc,                      \* position of the caller (main, or a library caller)
    args,                    \* [mode, image_path, min_score] of the current call
    LAYOUTPARSER_AVAILABLE,  \* module flag set by the guarded import
    local_files,             \* both cached weight/config files exist under ~/.torch
    MODEL,                   \* module global: None or the model handle
    constructed,             \* number of Detectron2LayoutModel objects constructed
    returned,                \* the handles get_model has returned so far
    calls,                   \* names of the functions entered so far
    layout,                  \* the list model.detect returned to the operation
    result,                  \* value returned by the operation, tagged with its kind
    exc,                     \* message of the exception raised inside main's try
    stdout,                  \* lines printed to standard output
    status,                  \* exit status of the process, -1 while it runs
    history                  \* library calls made so far, with their outcomes

vars == <<pc, args, LAYOUTPARSER_AVAILABLE, local_files, MODEL, constructed,
          returned, calls, layout, result, exc, stdout, status, history>>

-----------------------------------------------------------------------------
(* Bounds of the model *)

\* longest list of detected blocks drawn for the operations
MaxBlocks == 3

\* most calls a library caller makes in one process
MaxCalls == 3

-----------------------------------------------------------------------------
(* Program constants *)

\* MODEL.ROI_HEADS.SCORE_THRESH_TEST, 0.3
SCORE_THRESH_TEST == 3000

\* default of --min-score and of the min_score parameters, 0.5
DefaultMinScore == 5000

None == [id |-> 0]

NoResult == [kind |-> "none", value |-> <<>>]

-----------------------------------------------------------------------------
(* The inputs *)

\* label_map of the model
Labels == {"Text", "Title", "List", "Table", "Figure"}

\* boxes in half pixels inside a 4 x 4 px image: two boxes of equal area,
\* the second above the first, and a box of zero width
Boxes ==
    { [x_1 |-> 3, y_1 |-> 2, x_2 |-> 7, y_2 |-> 6],
      [x_1 |-> 0, y_1 |-> 0, x_2 |-> 8, y_2 |-> 2],
      [x_1 |-> 5, y_1 |-> 1, x_2 |-> 5, y_2 |-> 8] }

BlockScores == {5625, 9375}

\* every Figure and Table block over the scores and boxes, and one block
\* of a label the operations drop
Blocks ==
    { [type |-> t, score |-> s, block |-> b] :
        t \in {"Figure", "Table"}, s \in BlockScores, b \in Boxes }
    \cup { [type |-> "Text", score |-> 9375,
            block |-> [x_1 |-> 3, y_1 |-> 2, x_2 |-> 7, y_2 |-> 6]] }

Layouts == UNION { [1..n -> Blocks] : n \in 0..MaxBlocks }

\* values of min_score: zero, the default, and two values that are not
\* multiples of 0.001
MinScores == {0, DefaultMinScore, 5625, 9375}

-----------------------------------------------------------------------------
(* The files the process can be pointed at *)

Paths == {"fig.png", "page.png", "notes.txt", "missing.png"}

\* os.path.exists(image_path)
Exists(image_path) == image_path # "missing.png"

\* Image.open(image_path).convert("RGB") succeeds
Decodable(image_path) == image_path \in {"fig.png", "page.png"}

\* image.width, image.height in pixels
ImageSize(image_path) == [width |-> 4, height |-> 4]

\* what the detector finds in each image before its score threshold is
\* applied; the same image always gives the same list
RawDetections(image_path) ==
    IF image_path = "fig.png"
    THEN << [type |-> "Figure", score |-> 5625,
             block |-> [x_1 |-> 3, y_1 |-> 2, x_2 |-> 7, y_2 |-> 6]],
            [type |-> "Table", score |-> 2500,
             block |-> [x_1 |-> 0, y_1 |-> 0, x_2 |-> 8, y_2 |-> 8]],
            [type |-> "Text", score |-> 9375,
             block |-> [x_1 |-> 0, y_1 |-> 6, x_2 |-> 8, y_2 |-> 8]] >>
    ELSE IF image_path = "page.png"
    THEN << [type |-> "Table", score |-> 9375,
             block |-> [x_1 |-> 1, y_1 |-> 5, x_2 |-> 7, y_2 |-> 8]],
            [type |-> "Figure", score |-> 5625,
             block |-> [x_1 |-> 0, y_1 |-> 0, x_2 |-> 8, y_2 |-> 4]],
            [type |-> "Title", score |-> 9375,
             block |-> [x_1 |-> 0, y_1 |-> 0, x_2 |-> 8, y_2 |-> 1]] >>
    ELSE << >>

-----------------------------------------------------------------------------
(* Arithmetic of the program *)

\* round(score, 3): ten-thousandths to thousandths, ties to the even digit
Round3(score) ==
    LET q == score \div 10
        r == score % 10
    IN  IF r > 5 \/ (r = 5 /\ q % 2 = 1) THEN q + 1 ELSE q

\* int(v) of a coordinate in half pixels: truncation toward zero
Trunc(v) == IF v >= 0 THEN v \div 2 ELSE -((-v) \div 2)

\* block.block.width and block.block.height, in half pixels
Width(block) == block.block.x_2 - block.block.x_1

Height(block) == block.block.y_2 - block.block.y_1

\* block.score * (block_area / image_area) as a fraction num / den, in
\* units of 1/40000: the score is in ten-thousandths and the block area in
\* quarter pixels
combined_score(block, image_area) ==
    [num |-> block.score * (Width(block) * Height(block)),
     den |-> image_area]

\* a > b for two fractions with positive denominators
Greater(a, b) == a.num * b.den > b.num * a.den

\* a variant joining the two tests with "or"
QualifiesAny(block, min_score) ==
    block.score >= min_score \/ block.type \in {"Figure", "Table"}

\* the filter both operations apply to a block
Qualifies(block, min_score) ==
    block.score >= min_score /\ block.type \in {"Figure", "Table"}

\* "figure" if block.type == "Figure" else "table"
visual_type(block) == IF block.type = "Figure" THEN "figure" ELSE "table"

-----------------------------------------------------------------------------
(* classify_image, after detection *)

\* a variant comparing with >= in place of >
ConsiderLastWins(best, block, min_score, image_area) ==
    IF Qualifies(block, min_score)
       /\ ~Greater(best.best_score, combined_score(block, image_area))
    THEN [best_match |-> <<block>>,
          best_score |-> combined_score(block, image_area)]
    ELSE best

\* the update of (best_match, best_score) by one block of the loop;
\* best_match is <<>> for None and <<block>> otherwise
Consider(best, block, min_score, image_area) ==
    IF Qualifies(block, min_score)
       /\ Greater(combined_score(block, image_area), best.best_score)
    THEN [best_match |-> <<block>>,
          best_score |-> combined_score(block, image_area)]
    ELSE best

RECURSIVE BestMatch(_, _, _, _)
\* the loop over the blocks of layout, from (best_match, best_score) = best
BestMatch(blocks, min_score, image_area, best) ==
    IF blocks = << >>
    THEN best
    ELSE BestMatch(Tail(blocks), min_score, image_area,
                   Consider(best, Head(blocks), min_score, image_area))

\* the value classify_image returns for a detected layout
Classification(blocks, min_score, image_area) ==
    LET best == BestMatch(blocks, min_score, image_area,
                          [best_match |-> << >>,
                           best_score |-> [num |-> 0, den |-> 1]])
    IN  IF best.best_match # << >>
        THEN [type  |-> visual_type(best.best_match[1]),
              score |-> Round3(best.best_match[1].score),
              skip  |-> FALSE]
        ELSE [type |-> "skip", score |-> 0, skip |-> TRUE]

-----------------------------------------------------------------------------
(* detect_regions, after detection *)

\* the entry appended for one qualifying block
RegionEntry(block) ==
    [type  |-> visual_type(block),
     score |-> Round3(block.score),
     bbox  |-> [x      |-> Trunc(block.block.x_1),
                y      |-> Trunc(block.block.y_1),
                width  |-> Trunc(Width(block)),
                height |-> Trunc(Height(block))]]

RECURSIVE CollectDistinct(_, _)
\* a variant that drops an entry equal to a later one
CollectDistinct(blocks, min_score) ==
    IF blocks = << >>
    THEN << >>
    ELSE LET rest == CollectDistinct(Tail(blocks), min_score)
         IN  IF /\ Qualifies(Head(blocks), min_score)
                /\ \A i \in DOMAIN rest : rest[i] # RegionEntry(Head(blocks))
             THEN <<RegionEntry(Head(blocks))>> \o rest
             ELSE rest

RECURSIVE Collect(_, _)
\* the loop building results, in detection order
Collect(blocks, min_score) ==
    IF blocks = << >>
    THEN << >>
    ELSE IF Qualifies(Head(blocks), min_score)
         THEN <<RegionEntry(Head(blocks))>> \o Collect(Tail(blocks), min_score)
         ELSE Collect(Tail(blocks), min_score)

\* the sort key (r["bbox"]["y"], r["bbox"]["x"]): a before-or-equal b
KeyLeq(a, b) ==
    \/ a.bbox.y < b.bbox.y
    \/ a.bbox.y = b.bbox.y /\ a.bbox.x <= b.bbox.x

RECURSIVE InsertBefore(_, _)
\* a variant that puts r before the entries of equal key
InsertBefore(sorted, r) ==
    IF sorted = << >>
    THEN <<r>>
    ELSE IF KeyLeq(r, Head(sorted))
         THEN <<r>> \o sorted
         ELSE <<Head(sorted)>> \o InsertBefore(Tail(sorted), r)

RECURSIVE Insert(_, _)
\* r put after every entry whose key is before or equal to its own
Insert(sorted, r) ==
    IF sorted = << >>
    THEN <<r>>
    ELSE IF KeyLeq(Head(sorted), r)
         THEN <<Head(sorted)>> \o Insert(Tail(sorted), r)
         ELSE <<r>> \o sorted

RECURSIVE SortRegions(_, _)
\* results.sort(key=...): list.sort is stable; entries are inserted in
\* list order into the sorted prefix
SortRegions(sorted, rest) ==
    IF rest = << >>
    THEN sorted
    ELSE SortRegions(Insert(sorted, Head(rest)), Tail(rest))

\* the value detect_regions returns for a detected layout
Regions(blocks, min_score) == SortRegions(<< >>, Collect(blocks, min_score))

-----------------------------------------------------------------------------
(* get_model *)

\* what the library can raise during one call: nothing, an exception from
\* the model constructor, an exception from model.detect
Faults == {"none", "load", "detect"}

\* a variant whose local branch passes no extra_config and is left with the
\* detector's own default threshold, 0.05
Detectron2LayoutModelNoExtraConfig(id, local) ==
    IF local
    THEN [id |-> id, config_path |-> "local_config",
          thresh |-> 500, label_map |-> Labels]
    ELSE [id |-> id, config_path |-> "lp://PubLayNet/faster_rcnn_R_50_FPN_3x/config",
          thresh |-> SCORE_THRESH_TEST, label_map |-> Labels]

\* lp.Detectron2LayoutModel(...): the handle of a newly constructed model,
\* from the local files when both exist and from the default download
\* otherwise; id tells one constructed object from another
Detectron2LayoutModel(id, local) ==
    IF local
    THEN [id |-> id, config_path |-> "local_config",
          thresh |-> SCORE_THRESH_TEST, label_map |-> Labels]
    ELSE [id |-> id, config_path |-> "lp://PubLayNet/faster_rcnn_R_50_FPN_3x/config",
          thresh |-> SCORE_THRESH_TEST, label_map |-> Labels]

\* a variant without the "if MODEL is None" test
get_model_uncached(model, available, local, fault, n) ==
    IF ~available
    THEN [raised |-> "LayoutParser not installed", ret |-> None,
          MODEL |-> model, built |-> 0]
    ELSE IF fault = "load"
    THEN [raised |-> "model load failed", ret |-> None,
          MODEL |-> model, built |-> 0]
    ELSE [raised |-> "", ret |-> Detectron2LayoutModel(n + 1, local),
          MODEL |-> Detectron2LayoutModel(n + 1, local), built |-> 1]

\* one call of get_model with the global at value model: what it raises
\* ("" for nothing), what it returns, the new value of the global and
\* whether a model was constructed.  fault = "load": the constructor
\* raises (it reads weight files or downloads them, and can fail)
get_model(model, available, local, fault, n) ==
    IF model # None
    THEN [raised |-> "", ret |-> model, MODEL |-> model, built |-> 0]
    ELSE IF ~available
    THEN [raised |-> "LayoutParser not installed", ret |-> None,
          MODEL |-> model, built |-> 0]
    ELSE IF fault = "load"
    THEN [raised |-> "model load failed", ret |-> None,
          MODEL |-> model, built |-> 0]
    ELSE [raised |-> "", ret |-> Detectron2LayoutModel(n + 1, local),
          MODEL |-> Detectron2LayoutModel(n + 1, local), built |-> 1]

\* model.detect(image): the detector keeps the boxes scoring above its
\* SCORE_THRESH_TEST
Detect(model, image_path) ==
    SelectSeq(RawDetections(image_path), LAMBDA b : b.score > model.thresh)

-----------------------------------------------------------------------------
(* The two operations as called: open the image, get the model, detect,    *)
(* reduce.  Each yields what it raised, the functions entered, the new     *)
(* value of the global, the detected layout and the value returned.        *)

\* the first three statements of both operations.  Image is bound by the
\* same guarded import as lp, so without the library Image.open raises
\* NameError before get_model is reached
OpenAndDetect(image_path, model, available, local, fault, n) ==
    IF ~available
    THEN [raised |-> "name 'Image' is not defined", entered |-> {},
          MODEL |-> model, built |-> 0, returned |-> {}, layout |-> << >>]
    ELSE IF ~Exists(image_path)
    THEN [raised |-> "No such file or directory", entered |-> {},
          MODEL |-> model, built |-> 0, returned |-> {}, layout |-> << >>]
    ELSE IF ~Decodable(image_path)
    THEN [raised |-> "cannot identify image file", entered |-> {},
          MODEL |-> model, built |-> 0, returned |-> {}, layout |-> << >>]
    ELSE LET g == get_model(model, available, local, fault, n)
         IN  IF g.raised # ""
             THEN [raised |-> g.raised, entered |-> {"get_model"},
                   MODEL |-> g.MODEL, built |-> g.built, returned |-> {},
                   layout |-> << >>]
             ELSE IF fault = "detect"
             THEN [raised |-> "detection failed", entered |-> {"get_model"},
                   MODEL |-> g.MODEL, built |-> g.built, returned |-> {g.ret},
                   layout |-> << >>]
             ELSE [raised |-> "", entered |-> {"get_model"},
                   MODEL |-> g.MODEL, built |-> g.built, returned |-> {g.ret},
                   layout |-> Detect(g.ret, image_path)]

\* a variant that also raises the cached model's threshold to the caller's
\* min_score
classify_image_sets_thresh(image_path, min_score, model, available, local, fault, n) ==
    LET d == OpenAndDetect(image_path, model, available, local, fault, n)
        area == ImageSize(image_path).width * ImageSize(image_path).height
    IN  IF d.raised # ""
        THEN [raised |-> d.raised, entered |-> {"classify_image"} \cup d.entered,
              MODEL |-> d.MODEL, built |-> d.built, returned |-> d.returned,
              layout |-> d.layout, result |-> NoResult]
        ELSE [raised |-> "", entered |-> {"classify_image"} \cup d.entered,
              MODEL |-> [d.MODEL EXCEPT !.thresh =
                            IF min_score > @ THEN min_score ELSE @],
              built |-> d.built, returned |-> d.returned,
              layout |-> d.layout,
              result |-> [kind |-> "classification",
                          value |-> Classification(d.layout, min_score, area)]]

\* classify_image(image_path, min_score)
classify_image(image_path, min_score, model, available, local, fault, n) ==
    LET d == OpenAndDetect(image_path, model, available, local, fault, n)
        area == ImageSize(image_path).width * ImageSize(image_path).height
    IN  IF d.raised # ""
        THEN [raised |-> d.raised, entered |-> {"classify_image"} \cup d.entered,
              MODEL |-> d.MODEL, built |-> d.built, returned |-> d.returned,
              layout |-> d.layout, result |-> NoResult]
        ELSE [raised |-> "", entered |-> {"classify_image"} \cup d.entered,
              MODEL |-> d.MODEL, built |-> d.built, returned |-> d.returned,
              layout |-> d.layout,
              result |-> [kind |-> "classification",
                          value |-> Classification(d.layout, min_score, area)]]

\* detect_regions(image_path, min_score)
detect_regions(image_path, min_score, model, available, local, fault, n) ==
    LET d == OpenAndDetect(image_path, model, available, local, fault, n)
    IN  IF d.raised # ""
        THEN [raised |-> d.raised, entered |-> {"detect_regions"} \cup d.entered,
              MODEL |-> d.MODEL, built |-> d.built, returned |-> d.returned,
              layout |-> d.layout, result |-> NoResult]
        ELSE [raised |-> "", entered |-> {"detect_regions"} \cup d.entered,
              MODEL |-> d.MODEL, built |-> d.built, returned |-> d.returned,
              layout |-> d.layout,
              result |-> [kind |-> "regions",
                          value |-> Regions(d.layout, min_score)]]

-----------------------------------------------------------------------------
(* State changes shared by the callers *)

\* the effects of one call of an operation with outcome r
Effects(r) ==
    /\ MODEL' = r.MODEL
    /\ constructed' = constructed + r.built
    /\ returned' = returned \cup r.returned
    /\ calls' = calls \cup r.entered
    /\ layout' = r.layout
    /\ result' = r.result
    /\ exc' = r.raised

\* the state of a process after import, before anything is called
Fresh ==
    /\ MODEL = None
    /\ constructed = 0
    /\ returned = {}
    /\ calls = {}
    /\ layout = << >>
    /\ result = NoResult
    /\ exc = ""
    /\ stdout = << >>
    /\ status = -1
    /\ history = << >>

-----------------------------------------------------------------------------
(* main: one run of the command line tool *)

ArgSets ==
    [mode : {"classify", "detect"}, image_path : Paths, min_score : MinScores]

Init ==
    /\ pc = "start"
    /\ args \in ArgSets
    /\ LAYOUTPARSER_AVAILABLE \in BOOLEAN
    /\ local_files \in BOOLEAN
    /\ Fresh

\* a variant of the existence check that lets every path through
CheckImageSkipped ==
    /\ pc = "start"
    /\ pc' = "try"
    /\ UNCHANGED <<args, LAYOUTPARSER_AVAILABLE, local_files, MODEL,
                   constructed, returned, calls, layout, result, exc,
                   stdout, status, history>>

\* if not os.path.exists(args.image_path): print the error, sys.exit(1)
CheckImage ==
    /\ pc = "start"
    /\ IF ~Exists(args.image_path)
       THEN /\ stdout' = Append(stdout,
                   [kind |-> "error",
                    body |-> <<"Image not found: ", args.image_path>>])
            /\ status' = 1
            /\ pc' = "exited"
       ELSE /\ pc' = "try"
            /\ UNCHANGED <<stdout, status>>
    /\ UNCHANGED <<args, LAYOUTPARSER_AVAILABLE, local_files, MODEL,
                   constructed, returned, calls, layout, result, exc, history>>

\* result = classify_image(args.image_path, args.min_score), inside try
RunClassify ==
    /\ pc = "try"
    /\ args.mode = "classify"
    /\ \E fault \in Faults :
         LET r == classify_image(args.image_path, args.min_score, MODEL,
                                 LAYOUTPARSER_AVAILABLE, local_files, fault,
                                 constructed)
         IN  /\ Effects(r)
             /\ pc' = IF r.raised = "" THEN "print" ELSE "except"
    /\ UNCHANGED <<args, LAYOUTPARSER_AVAILABLE, local_files, stdout, status,
                   history>>

\* result = detect_regions(args.image_path, args.min_score), inside try
RunDetect ==
    /\ pc = "try"
    /\ args.mode = "detect"
    /\ \E fault \in Faults :
         LET r == detect_regions(args.image_path, args.min_score, MODEL,
                                 LAYOUTPARSER_AVAILABLE, local_files, fault,
                                 constructed)
         IN  /\ Effects(r)
             /\ pc' = IF r.raised = "" THEN "print" ELSE "except"
    /\ UNCHANGED <<args, LAYOUTPARSER_AVAILABLE, local_files, stdout, status,
                   history>>

\* print(json.dumps(result)), then main returns and the process exits 0
PrintResult ==
    /\ pc = "print"
    /\ stdout' = Append(stdout, [kind |-> "result", body |-> result.value])
    /\ status' = 0
    /\ pc' = "exited"
    /\ UNCHANGED <<args, LAYOUTPARSER_AVAILABLE, local_files, MODEL,
                   constructed, returned, calls, layout, result, exc, history>>

\* a variant of the handler that prints the error and falls off the end
HandleExceptionNoExit ==
    /\ pc = "except"
    /\ stdout' = Append(stdout, [kind |-> "error", body |-> <<exc>>])
    /\ status' = 0
    /\ pc' = "exited"
    /\ UNCHANGED <<args, LAYOUTPARSER_AVAILABLE, local_files, MODEL,
                   constructed, returned, calls, layout, result, exc, history>>

\* except Exception as e: print the error, sys.exit(1)
HandleException ==
    /\ pc = "except"
    /\ stdout' = Append(stdout, [kind |-> "error", body |-> <<exc>>])
    /\ status' = 1
    /\ pc' = "exited"
    /\ UNCHANGED <<args, LAYOUTPARSER_AVAILABLE, local_files, MODEL,
                   constructed, returned, calls, layout, result, exc, history>>

Next ==
    \/ CheckImage
    \/ RunClassify
    \/ RunDetect
    \/ PrintResult
    \/ HandleException

Spec == Init /\ [][Next]_vars

-----------------------------------------------------------------------------
(* The two reductions applied to every detected layout *)

InitOps ==
    /\ pc = "input"
    /\ args \in [mode : {"any"}, image_path : {"page.png"}, min_score : MinScores]
    /\ LAYOUTPARSER_AVAILABLE = TRUE
    /\ local_files = TRUE
    /\ MODEL = None
    /\ constructed = 0
    /\ returned = {}
    /\ calls = {}
    /\ layout \in Layouts
    /\ result = NoResult
    /\ exc = ""
    /\ stdout = << >>
    /\ status = -1
    /\ history = << >>

\* classify_image from the loop on, over the layout drawn
Classify ==
    /\ pc = "input"
    /\ result' = [kind |-> "classification",
                  value |-> Classification(layout, args.min_score,
                               ImageSize(args.image_path).width
                                 * ImageSize(args.image_path).height)]
    /\ pc' = "classified"
    /\ UNCHANGED <<args, LAYOUTPARSER_AVAILABLE, local_files, MODEL,
                   constructed, returned, calls, layout, exc, stdout, status,
                   history>>

\* detect_regions from the loop on, over the layout drawn
DetectRegions ==
    /\ pc = "input"
    /\ result' = [kind |-> "regions",
                  value |-> Regions(layout, args.min_score)]
    /\ pc' = "detected"
    /\ UNCHANGED <<args, LAYOUTPARSER_AVAILABLE, local_files, MODEL,
                   constructed, returned, calls, layout, exc, stdout, status,
                   history>>

NextOps ==
    \/ Classify
    \/ DetectRegions

SpecOps == InitOps /\ [][NextOps]_vars

-----------------------------------------------------------------------------
(* A process that imports the module and calls its functions repeatedly *)

LibPaths == {"fig.png", "page.png"}

LibMinScores == {DefaultMinScore, 9375}

InitLib ==
    /\ pc = "lib"
    /\ args = [mode |-> "none", image_path |-> "", min_score |-> DefaultMinScore]
    /\ LAYOUTPARSER_AVAILABLE \in BOOLEAN
    /\ local_files \in BOOLEAN
    /\ Fresh

\* the record of one call in history
Entry(mode, image_path, min_score, r) ==
    [mode |-> mode, image_path |-> image_path, min_score |-> min_score,
     cold |-> (MODEL = None), raised |-> r.raised, result |-> r.result]

\* get_model() called directly
CallGetModel ==
    /\ Len(history) < MaxCalls
    /\ \E fault \in Faults :
         LET g == get_model(MODEL, LAYOUTPARSER_AVAILABLE, local_files, fault,
                            constructed)
             r == [raised |-> g.raised, entered |-> {"get_model"},
                   MODEL |-> g.MODEL, built |-> g.built,
                   returned |-> IF g.raised = "" THEN {g.ret} ELSE {},
                   layout |-> layout, result |-> NoResult]
         IN  /\ Effects(r)
             /\ args' = [mode |-> "get_model", image_path |-> "",
                         min_score |-> DefaultMinScore]
             /\ history' = Append(history,
                               Entry("get_model", "", DefaultMinScore, r))
    /\ UNCHANGED <<pc, LAYOUTPARSER_AVAILABLE, local_files, stdout, status>>

\* classify_image(image_path, min_score)
CallClassify ==
    /\ Len(history) < MaxCalls
    /\ \E image_path \in LibPaths, min_score \in LibMinScores, fault \in Faults :
         LET r == classify_image(image_path, min_score, MODEL,
                                 LAYOUTPARSER_AVAILABLE, local_files, fault,
                                 constructed)
         IN  /\ Effects(r)
             /\ args' = [mode |-> "classify", image_path |-> image_path,
                         min_score |-> min_score]
             /\ history' = Append(history,
                               Entry("classify", image_path, min_score, r))
    /\ UNCHANGED <<pc, LAYOUTPARSER_AVAILABLE, local_files, stdout, status>>

\* detect_regions(image_path, min_score)
CallDetect ==
    /\ Len(history) < MaxCalls
    /\ \E image_path \in LibPaths, min_score \in LibMinScores, fault \in Faults :
         LET r == detect_regions(image_path, min_score, MODEL,
                                 LAYOUTPARSER_AVAILABLE, local_files, fault,
                                 constructed)
         IN  /\ Effects(r)
             /\ args' = [mode |-> "detect", image_path |-> image_path,
                         min_score |-> min_score]
             /\ history' = Append(history,
                               Entry("detect", image_path, min_score, r))
    /\ UNCHANGED <<pc, LAYOUTPARSER_AVAILABLE, local_files, stdout, status>>

NextLib ==
    \/ CallGetModel
    \/ CallClassify
    \/ CallDetect

SpecLib == InitLib /\ [][NextLib]_vars

-----------------------------------------------------------------------------
(* Vocabulary of the properties, stated apart from the operators above *)

\* the block passes the documented filter
Passes(b, min_score) ==
    b.score >= min_score /\ (b.type = "Figure" \/ b.type = "Table")

\* score times area of a block: its combined score times the image area
Weight(b) ==
    b.score * ((b.block.x_2 - b.block.x_1) * (b.block.y_2 - b.block.y_1))

\* r thousandths is a nearest thousandth of s ten-thousandths
NearestThousandth(r, s) == 10 * r - s \in -5..5

Lower(type) ==
    IF type = "Figure" THEN "figure" ELSE IF type = "Table" THEN "table" ELSE "other"

\* the entries of the passing blocks, in detection order
Expected(blocks, min_score) ==
    LET pass == SelectSeq(blocks, LAMBDA b : Passes(b, min_score))
    IN  [i \in 1..Len(pass) |-> RegionEntry(pass[i])]

Range(seq) == { seq[i] : i \in DOMAIN seq }

Count(seq, e) == Cardinality({ i \in DOMAIN seq : seq[i] = e })

SameKey(a, b) == a.bbox.y = b.bbox.y /\ a.bbox.x = b.bbox.x

Returned(i) == history[i].raised = ""

SameCall(i, j) ==
    /\ history[i].mode = history[j].mode
    /\ history[i].image_path = history[j].image_path
    /\ history[i].min_score = history[j].min_score

-----------------------------------------------------------------------------
(* Properties of the reductions, under SpecOps *)

\* C1: a non-skip result of classify_image reports one detected block: the
\* first, in detection order, of the passing blocks of greatest combined
\* score; its type in lower case and its own score rounded to a nearest
\* thousandth
C1_ReportsFirstBestBlock ==
    (pc = "classified" /\ ~result.value.skip) =>
        \E i \in DOMAIN layout :
            /\ Passes(layout[i], args.min_score)
            /\ \A j \in DOMAIN layout :
                   Passes(layout[j], args.min_score)
                       => Weight(layout[j]) <= Weight(layout[i])
            /\ \A j \in 1..(i - 1) :
                   Passes(layout[j], args.min_score)
                       => Weight(layout[j]) < Weight(layout[i])
            /\ result.value.type = Lower(layout[i].type)
            /\ NearestThousandth(result.value.score, layout[i].score)

\* a Figure and a Table tie at the greatest combined score and the earlier
\* of the two is the one reported
C1_Witness ==
    /\ pc = "classified"
    /\ ~result.value.skip
    /\ \E i, j \in DOMAIN layout :
           /\ i < j
           /\ Passes(layout[i], args.min_score)
           /\ Passes(layout[j], args.min_score)
           /\ Weight(layout[i]) = Weight(layout[j])
           /\ layout[i].type # layout[j].type
           /\ \A k \in DOMAIN layout :
                  Passes(layout[k], args.min_score)
                      => /\ Weight(layout[k]) <= Weight(layout[i])
                         /\ (k < i => Weight(layout[k]) < Weight(layout[i]))
           /\ result.value.type = Lower(layout[i].type)

\* C2: classify_image returns the skip result exactly when no detected
\* block passes the filter, and a figure or table result whenever one does
C2_SkipExactlyWhenNonePasses ==
    pc = "classified" =>
        IF \A i \in DOMAIN layout : ~Passes(layout[i], args.min_score)
        THEN result.value = [type |-> "skip", score |-> 0, skip |-> TRUE]
        ELSE /\ result.value.skip = FALSE
             /\ result.value.type \in {"figure", "table"}

\* C3: detect_regions returns one entry for each passing block, duplicates
\* included, and nothing else
C3_OneEntryPerPassingBlock ==
    pc = "detected" =>
        /\ Len(result.value)
             = Cardinality({ j \in DOMAIN layout : Passes(layout[j], args.min_score) })
        /\ \A e \in Range(result.value) \cup Range(Expected(layout, args.min_score)) :
               Count(result.value, e) = Count(Expected(layout, args.min_score), e)
        /\ \A e \in Range(result.value) : e.type \in {"figure", "table"}

\* a passing block detected twice yields two entries, beside a block that
\* is dropped
C3_Witness ==
    /\ pc = "detected"
    /\ \E i, j, k \in DOMAIN layout :
           /\ i < j
           /\ layout[i] = layout[j]
           /\ Passes(layout[i], args.min_score)
           /\ ~Passes(layout[k], args.min_score)
    /\ Len(result.value) = 2
    /\ result.value[1] = result.value[2]

\* C4: the list detect_regions returns ascends by (bbox.y, bbox.x), and the
\* entries of equal (y, x) keep their detection order
C4_StableReadingOrder ==
    pc = "detected" =>
        /\ \A i \in 1..(Len(result.value) - 1) :
               \/ result.value[i].bbox.y < result.value[i + 1].bbox.y
               \/ /\ result.value[i].bbox.y = result.value[i + 1].bbox.y
                  /\ result.value[i].bbox.x <= result.value[i + 1].bbox.x
        /\ \A e \in Range(result.value) :
               SelectSeq(result.value, LAMBDA r : SameKey(r, e))
                 = SelectSeq(Expected(layout, args.min_score),
                             LAMBDA r : SameKey(r, e))

\* two different entries of equal (y, x) in a list the sort had to reorder
C4_Witness ==
    /\ pc = "detected"
    /\ result.value # Expected(layout, args.min_score)
    /\ \E i \in 1..(Len(result.value) - 1) :
           /\ SameKey(result.value[i], result.value[i + 1])
           /\ result.value[i] # result.value[i + 1]

\* C5 as stated: every emitted entry is a figure or a table whose emitted
\* score is at least min_score; a skip result has score 0 and no bbox
C5_EmittedScoreAtLeastMin ==
    /\ pc = "classified" =>
           IF result.value.skip
           THEN result.value.score = 0 /\ "bbox" \notin DOMAIN result.value
           ELSE /\ result.value.type \in {"figure", "table"}
                /\ 10 * result.value.score >= args.min_score
    /\ pc = "detected" =>
           \A e \in Range(result.value) :
               /\ e.type \in {"figure", "table"}
               /\ 10 * e.score >= args.min_score

\* C5 as amended: the emitted score is at most 0.0005 below min_score, and
\* is at least min_score when min_score is a multiple of 0.001
C5_EmittedScoreWithinRounding ==
    /\ pc = "classified" =>
           IF result.value.skip
           THEN result.value.score = 0 /\ "bbox" \notin DOMAIN result.value
           ELSE /\ result.value.type \in {"figure", "table"}
                /\ 10 * result.value.score + 5 >= args.min_score
                /\ args.min_score % 10 = 0
                       => 10 * result.value.score >= args.min_score
    /\ pc = "detected" =>
           \A e \in Range(result.value) :
               /\ e.type \in {"figure", "table"}
               /\ 10 * e.score + 5 >= args.min_score
               /\ args.min_score % 10 = 0 => 10 * e.score >= args.min_score

\* an entry is emitted with a rounded score below the min_score its block
\* passed
C5_Witness ==
    /\ pc = "detected"
    /\ \E e \in Range(result.value) : 10 * e.score < args.min_score

-----------------------------------------------------------------------------
(* Properties of one run of main, under Spec *)

\* C6: with an image_path that does not exist, main prints the "Image not
\* found" error and exits 1; get_model, classify_image and detect_regions
\* are never entered and no model is constructed
C6_MissingImageStopsBeforeModel ==
    ~Exists(args.image_path) =>
        /\ pc \in {"start", "exited"}
        /\ calls = {}
        /\ MODEL = None
        /\ constructed = 0
        /\ pc = "exited" =>
               /\ stdout = << [kind |-> "error",
                               body |-> <<"Image not found: ", args.image_path>>] >>
               /\ status = 1

\* a run on a missing path has ended
C6_Witness ==
    /\ pc = "exited"
    /\ ~Exists(args.image_path)
    /\ args.mode = "detect"
    /\ LAYOUTPARSER_AVAILABLE

\* C7: a run prints nothing before it ends, and ends with exactly one
\* line: a result with status 0, or an error with status 1; an exception
\* raised in the operation ends in the error outcome, and no run stops
\* short of an outcome
C7_OneOutcome ==
    /\ pc # "exited" => stdout = << >> /\ status = -1 /\ ENABLED Next
    /\ pc = "exited" =>
           /\ Len(stdout) = 1
           /\ \/ /\ stdout[1].kind = "result"
                 /\ status = 0
                 /\ exc = ""
                 /\ result.kind \in {"classification", "regions"}
                 /\ stdout[1].body = result.value
              \/ /\ stdout[1].kind = "error"
                 /\ status = 1
                 /\ result = NoResult
           /\ exc # "" => stdout[1].kind = "error" /\ status = 1

\* a run in which detection raised, after the model was loaded, has ended
C7_Witness ==
    /\ pc = "exited"
    /\ exc = "detection failed"
    /\ MODEL # None
    /\ calls = {"classify_image", "get_model"}

\* C10 as stated: the threshold of the loaded model is at most the
\* min_score of the run
C10_ThreshAtMostMinScore ==
    MODEL # None => MODEL.thresh <= args.min_score

\* C10 as amended: the threshold is 0.3 on both paths, and it is at most
\* min_score exactly when min_score is at least 0.3
C10_ThreshFixedOnBothPaths ==
    MODEL # None =>
        /\ MODEL.thresh = 3000
        /\ args.min_score >= 3000 <=> MODEL.thresh <= args.min_score

\* a run with min_score below the threshold printed a result that leaves
\* out a block scoring between the two
C10_Witness ==
    /\ pc = "exited"
    /\ status = 0
    /\ local_files
    /\ args.min_score < MODEL.thresh
    /\ \E i \in DOMAIN RawDetections(args.image_path) :
           /\ Passes(RawDetections(args.image_path)[i], args.min_score)
           /\ RawDetections(args.image_path)[i] \notin Range(layout)

-----------------------------------------------------------------------------
(* Properties of repeated calls in one process, under SpecLib *)

\* C8: at most one model is constructed, and every handle get_model has
\* returned, to either operation or to a direct caller, is the cached one
C8_OneModelOneHandle ==
    /\ constructed <= 1
    /\ Cardinality(returned) <= 1
    /\ returned # {} => returned = {MODEL}
    /\ MODEL # None => constructed = 1 /\ MODEL.id = 1

\* both operations and a direct call got the handle, the first of them
\* constructing it
C8_Witness ==
    /\ Len(history) = 3
    /\ \A i \in DOMAIN history : Returned(i)
    /\ { history[i].mode : i \in DOMAIN history }
         = {"classify", "detect", "get_model"}
    /\ history[1].cold
    /\ constructed = 1

\* C9: two calls of the same operation with the same image and min_score
\* that return, return the same value
C9_RepeatedCallsAgree ==
    \A i, j \in DOMAIN history :
        (SameCall(i, j) /\ Returned(i) /\ Returned(j))
            => history[i].result = history[j].result

\* a call that loaded the model and a later repeat of it on the cached
\* model, with a call of the other operation at a higher min_score between
C9_Witness ==
    /\ Len(history) = 3
    /\ SameCall(1, 3)
    /\ history[1].mode = "detect"
    /\ history[2].mode = "classify"
    /\ history[2].min_score > history[1].min_score
    /\ \A i \in DOMAIN history : Returned(i)
    /\ history[1].cold
    /\ ~history[3].cold
    /\ history[3].result.value # << >>


====
